---- MODULE Spec2Model ----
(***************************************************************************)
(* Model of model/structures.py: the GenericArchitecture wrapper and its   *)
(* eight concrete topologies.  A state is one wrapper object (its          *)
(* attributes), its lifecycle position and the trace of the calls made on  *)
(* it, each with the framework calls it issued.  Keras layers are modelled *)
(* by their shape inference; framework functions whose numeric value is    *)
(* not defined in this repository are kept as terms over their arguments.  *)
(***************************************************************************)
EXTENDS Integers, Sequences, FiniteSets, TLC

VARIABLES self, pc, trace

vars == <<self, pc, trace>>

\* ------------------------------------------------------------------ bounds

\* Largest dimension D a constructor is called with.
MaxDim == 14
\* Largest number of calls made on a constructed instance.
MaxCalls == 2

\* ------------------------------------------------------- python values

\* Python values are kept by their repr, so that one field holds one type.
True == "True"
False == "False"
None == "None"

Classes ==
  {"GenericArchitecture", "FlatRGB", "SimpleConvolutionalRGB", "DeepConvolutionalRGB",
   "TripletRGB", "FlatRPPG", "SimpleConvolutionalRPPG", "DeepConvolutionalRPPG",
   "TripletRPPG"}

\* A dict (and a **kwargs) is a set of <<key, value>> pairs with unique keys.
HasKey(d, k) == \E p \in d : p[1] = k
GetItem(d, k) == (CHOOSE p \in d : p[1] = k)[2]
SetItem(d, k, v) == {p \in d : p[1] # k} \cup {<<k, v>>}
\* A keyword parameter with a default value.
Param(kwargs, k, default) == IF HasKey(kwargs, k) THEN GetItem(kwargs, k) ELSE default

\* An object with no attribute yet; self.a = v; hasattr.
NewObject == <<>>
SetAttr(obj, a, v) == (a :> v) @@ obj
HasAttr(obj, a) == a \in DOMAIN obj

\* ------------------------------------------------------- keras layers

\* v bound to a name for the rest of a computation: F(v).
Let(v, F(_)) == CHOOSE r \in {F(x) : x \in {v}} : TRUE

\* A tensor is the layer call that produced it: the layer, the tensors it
\* was applied to and the shape of its output (the batch axis left out).
\* raised says that this call, or one before it, raised: the framework
\* refuses a layer whose output would have an axis shorter than 1.
ShapeValid(shape) == \A k \in 1..Len(shape) : shape[k] >= 1
Tensor(layer, inbound, shape) ==
  [layer |-> layer, inbound |-> inbound, shape |-> shape,
   raised |-> (~ShapeValid(shape)) \/ (\E i \in 1..Len(inbound) : inbound[i].raised)]

Input(shape, name) == Tensor([class |-> "InputLayer", name |-> name], <<>>, shape)

Flatten(t) == Tensor([class |-> "Flatten"], <<t>>, <<t.shape[1] * t.shape[2]>>)

\* Output length of a convolution with padding 'valid' (the default).
ConvOutputLength(L, kernel_size, strides) == ((L - kernel_size) \div strides) + 1

Conv1D(t, filters, kernel_size, strides, activation) ==
  Tensor([class |-> "Conv1D", filters |-> filters, kernel_size |-> kernel_size,
          strides |-> strides, padding |-> "valid", activation |-> activation],
         <<t>>, <<ConvOutputLength(t.shape[1], kernel_size, strides), filters>>)

BatchNormalization(t) == Tensor([class |-> "BatchNormalization"], <<t>>, t.shape)

Activation(t, activation) ==
  Tensor([class |-> "Activation", activation |-> activation], <<t>>, t.shape)

GlobalAveragePooling1D(t) ==
  Tensor([class |-> "GlobalAveragePooling1D"], <<t>>, <<t.shape[2]>>)

Concatenate(a, b) ==
  Tensor([class |-> "Concatenate"], <<a, b>>, <<a.shape[1] + b.shape[1]>>)

\* Lambda(lambda x : K.l2_normalize(x, axis=1))
LambdaL2Normalize(t) ==
  Tensor([class |-> "Lambda", function |-> "l2_normalize", axis |-> 1], <<t>>, t.shape)

Dense(t, units, activation) ==
  Tensor([class |-> "Dense", units |-> units, activation |-> activation], <<t>>, <<units>>)

Adam(lr) == [class |-> "Adam", lr |-> lr]

Model(inputs, outputs) ==
  [inputs |-> inputs, outputs |-> outputs, compiled |-> FALSE,
   optimizer |-> [class |-> None], loss |-> [kind |-> None], metrics |-> <<>>]

compile(model, optimizer, loss, metrics) ==
  [model EXCEPT !.compiled = TRUE, !.optimizer = optimizer, !.loss = loss,
                !.metrics = metrics]

\* loss='categorical_crossentropy'
NamedLoss(name) == [kind |-> "named", name |-> name]

\* model.metrics_names: the loss, then one name per compiled metric.
metrics_names(model) == <<"loss">> \o model.metrics

\* What build_model hands back to its caller.
Return(model, framework) ==
  [outcome |-> "return", error |-> None, value |-> model, framework |-> framework]
Raise(error) ==
  [outcome |-> "raise", error |-> error, value |-> [kind |-> None], framework |-> <<>>]

Summary == [method |-> "summary"]

\* ------------------------------------------------------- triplet loss

\* K.argmax(y_true, axis=1): per row, the 0-based index of its first maximum.
ArgmaxRow(row) ==
  CHOOSE i \in 0..(Len(row) - 1) :
    /\ \A j \in 0..(Len(row) - 1) : row[j + 1] <= row[i + 1]
    /\ \A j \in 0..(i - 1) : row[j + 1] < row[i + 1]
argmax(y, axis) == [r \in 1..Len(y) |-> ArgmaxRow(y[r])]

\* tf.contrib.losses.metric_learning.triplet_semihard_loss(labels, embeddings,
\* margin=1.0) and keras.losses.categorical_crossentropy, as terms.
TripletSemihardDefaultMargin == "1.0"
triplet_semihard_loss(labels, embeddings, margin) ==
  [fn |-> "triplet_semihard_loss", labels |-> labels, embeddings |-> embeddings,
   margin |-> margin]
categorical_crossentropy(y_true, y_pred) ==
  [fn |-> "categorical_crossentropy", y_true |-> y_true, y_pred |-> y_pred]
Add(a, b) == [fn |-> "add", a |-> a, b |-> b]

\* triplet_loss handing its margin on to triplet_semihard_loss.
TripletRGB_triplet_loss_PassesMargin(margin, embeddings, y_true, y_pred) ==
  Add(triplet_semihard_loss(argmax(y_true, 1), embeddings, margin),
      categorical_crossentropy(y_true, y_pred))

\* triplet_loss(margin)(y_true, y_pred) of TripletRGB.build_model, embeddings
\* being the tensor the closure captures.
TripletRGB_triplet_loss(margin, embeddings, y_true, y_pred) ==
  LET triplet_contribution ==
        triplet_semihard_loss(argmax(y_true, 1), embeddings, TripletSemihardDefaultMargin)
      classification_contribution == categorical_crossentropy(y_true, y_pred)
  IN Add(triplet_contribution, classification_contribution)

\* __triplet_loss returning the triplet term alone.
TripletRPPG_triplet_loss_TripletOnly(margin, embeddings, y_true, y_pred) ==
  triplet_semihard_loss(argmax(y_true, 1), embeddings, TripletSemihardDefaultMargin)

\* triplet_loss(margin)(y_true, y_pred) of TripletRPPG.build_model.
TripletRPPG_triplet_loss(margin, embeddings, y_true, y_pred) ==
  LET triplet_contribution ==
        triplet_semihard_loss(argmax(y_true, 1), embeddings, TripletSemihardDefaultMargin)
      classification_contribution == categorical_crossentropy(y_true, y_pred)
  IN Add(triplet_contribution, classification_contribution)

\* The function object triplet_loss(margin=...) returns: __triplet_loss with
\* the variables of its defining scopes.
TripletClosure(owner, margin, embeddings) ==
  [kind |-> "closure", name |-> "__triplet_loss", owner |-> owner, margin |-> margin,
   embeddings |-> embeddings]

\* ------------------------------------------------------- build_model

\* Each rebinding of a variable of the source (x = ...; x = ...) gets a
\* numbered name: x1, x2, ...

\* FlatRGB.build_model with Adam() left at its own learning rate.
FlatRGB_build_model_DefaultAdam(slf, input_shape) ==
  Let(Input(input_shape, ""), LAMBDA input_layer :
  Let(Dense(Flatten(input_layer), 2, "softmax"), LAMBDA x2 :
  IF x2.raised THEN Raise("ValueError")
  ELSE Return(compile(Model(<<input_layer>>, <<x2>>), Adam("1e-3"),
                      NamedLoss("categorical_crossentropy"),
                      <<"accuracy", "APCER", "BPCER", "ACER">>),
              IF slf.verbose = True THEN <<Summary>> ELSE <<>>)))

FlatRGB_build_model(slf, input_shape) ==
  Let(Input(input_shape, ""), LAMBDA input_layer :
  Let(Flatten(input_layer), LAMBDA x1 :
  Let(Dense(x1, 2, "softmax"), LAMBDA x2 :
  IF x2.raised THEN Raise("ValueError")
  ELSE IF ~(HasAttr(slf, "learning_rate") /\ HasAttr(slf, "verbose"))
  THEN Raise("AttributeError")
  ELSE Let(compile(Model(<<input_layer>>, <<x2>>), Adam(slf.learning_rate),
                   NamedLoss("categorical_crossentropy"),
                   <<"accuracy", "APCER", "BPCER", "ACER">>), LAMBDA model :
       Return(model, IF slf.verbose = True THEN <<Summary>> ELSE <<>>)))))

\* SimpleConvolutionalRGB.build_model with kernel_size=3.
SimpleConvolutionalRGB_build_model_Kernel3(slf, input_shape) ==
  Let(Input(input_shape, ""), LAMBDA input_layer :
  Let(Activation(BatchNormalization(Conv1D(input_layer, 64, 3, 1, "linear")), "relu"),
      LAMBDA x3 :
  Let(Dense(GlobalAveragePooling1D(x3), 2, "softmax"), LAMBDA x5 :
  IF x5.raised THEN Raise("ValueError")
  ELSE Return(compile(Model(<<input_layer>>, <<x5>>), Adam(slf.learning_rate),
                      NamedLoss("categorical_crossentropy"),
                      <<"accuracy", "APCER", "BPCER", "ACER">>),
              IF slf.verbose = True THEN <<Summary>> ELSE <<>>))))

SimpleConvolutionalRGB_build_model(slf, input_shape) ==
  Let(Input(input_shape, ""), LAMBDA input_layer :
  Let(Conv1D(input_layer, 64, 5, 1, "linear"), LAMBDA x1 :
  Let(BatchNormalization(x1), LAMBDA x2 :
  Let(Activation(x2, "relu"), LAMBDA x3 :
  Let(GlobalAveragePooling1D(x3), LAMBDA x4 :
  Let(Dense(x4, 2, "softmax"), LAMBDA x5 :
  IF x5.raised THEN Raise("ValueError")
  ELSE IF ~(HasAttr(slf, "learning_rate") /\ HasAttr(slf, "verbose"))
  THEN Raise("AttributeError")
  ELSE Let(compile(Model(<<input_layer>>, <<x5>>), Adam(slf.learning_rate),
                   NamedLoss("categorical_crossentropy"),
                   <<"accuracy", "APCER", "BPCER", "ACER">>), LAMBDA model :
       Return(model, IF slf.verbose = True THEN <<Summary>> ELSE <<>>))))))))

DeepConvolutionalRGB_build_model(slf, input_shape) ==
  Let(Input(input_shape, ""), LAMBDA input_layer :
  Let(Conv1D(input_layer, 64, 5, 2, "linear"), LAMBDA x1 :
  Let(BatchNormalization(x1), LAMBDA x2 :
  Let(Activation(x2, "relu"), LAMBDA x3 :
  Let(Conv1D(x3, 128, 5, 2, "linear"), LAMBDA x4 :
  Let(BatchNormalization(x4), LAMBDA x5 :
  Let(Activation(x5, "relu"), LAMBDA x6 :
  Let(GlobalAveragePooling1D(x6), LAMBDA x7 :
  Let(Dense(x7, 2, "softmax"), LAMBDA x8 :
  IF x8.raised THEN Raise("ValueError")
  ELSE IF ~(HasAttr(slf, "learning_rate") /\ HasAttr(slf, "verbose"))
  THEN Raise("AttributeError")
  ELSE Let(compile(Model(<<input_layer>>, <<x8>>), Adam(slf.learning_rate),
                   NamedLoss("categorical_crossentropy"),
                   <<"accuracy", "APCER", "BPCER", "ACER">>), LAMBDA model :
       Return(model, IF slf.verbose = True THEN <<Summary>> ELSE <<>>)))))))))))

\* FlatRPPG.build_model with a one-unit sigmoid output instead.
FlatRPPG_build_model_SigmoidOutput(slf, input_dim) ==
  Let(Input(<<input_dim, 3>>, "input_rgb"), LAMBDA input_rgb :
  Let(Input(<<input_dim, 1>>, "input_ppg"), LAMBDA input_ppg :
  Let(Concatenate(Flatten(input_rgb), Flatten(input_ppg)), LAMBDA combined_branch1 :
  Let(Dense(combined_branch1, 1, "sigmoid"), LAMBDA combined_branch2 :
  IF combined_branch2.raised THEN Raise("ValueError")
  ELSE Return(compile(Model(<<input_rgb, input_ppg>>, <<combined_branch2>>),
                      Adam(slf.learning_rate), NamedLoss("categorical_crossentropy"),
                      <<"accuracy", "APCER", "BPCER", "ACER">>),
              IF slf.verbose = True THEN <<Summary>> ELSE <<>>)))))

FlatRPPG_build_model(slf, input_dim) ==
  Let(Input(<<input_dim, 3>>, "input_rgb"), LAMBDA input_rgb :
  Let(Input(<<input_dim, 1>>, "input_ppg"), LAMBDA input_ppg :
  Let(Flatten(input_rgb), LAMBDA rgb_branch :
  Let(Flatten(input_ppg), LAMBDA ppg_branch :
  Let(Concatenate(rgb_branch, ppg_branch), LAMBDA combined_branch1 :
  Let(Dense(combined_branch1, 2, "softmax"), LAMBDA combined_branch2 :
  IF combined_branch2.raised THEN Raise("ValueError")
  ELSE IF ~(HasAttr(slf, "learning_rate") /\ HasAttr(slf, "verbose"))
  THEN Raise("AttributeError")
  ELSE Let(compile(Model(<<input_rgb, input_ppg>>, <<combined_branch2>>), Adam(slf.learning_rate),
                   NamedLoss("categorical_crossentropy"),
                   <<"accuracy", "APCER", "BPCER", "ACER">>), LAMBDA model :
       Return(model, IF slf.verbose = True THEN <<Summary>> ELSE <<>>))))))))

SimpleConvolutionalRPPG_build_model(slf, input_dim) ==
  Let(Input(<<input_dim, 3>>, "input_rgb"), LAMBDA input_rgb :
  Let(Input(<<input_dim, 1>>, "input_ppg"), LAMBDA input_ppg :
  Let(Conv1D(input_rgb, 64, 5, 1, "linear"), LAMBDA rgb_branch1 :
  Let(BatchNormalization(rgb_branch1), LAMBDA rgb_branch2 :
  Let(Activation(rgb_branch2, "relu"), LAMBDA rgb_branch3 :
  Let(Conv1D(input_ppg, 64, 5, 1, "linear"), LAMBDA ppg_branch1 :
  Let(BatchNormalization(ppg_branch1), LAMBDA ppg_branch2 :
  Let(Activation(ppg_branch2, "relu"), LAMBDA ppg_branch3 :
  Let(GlobalAveragePooling1D(rgb_branch3), LAMBDA rgb_branch4 :
  Let(GlobalAveragePooling1D(ppg_branch3), LAMBDA ppg_branch4 :
  Let(Concatenate(rgb_branch4, ppg_branch4), LAMBDA combined_branch1 :
  Let(Dense(combined_branch1, 2, "softmax"), LAMBDA combined_branch2 :
  IF combined_branch2.raised THEN Raise("ValueError")
  ELSE IF ~(HasAttr(slf, "learning_rate") /\ HasAttr(slf, "verbose"))
  THEN Raise("AttributeError")
  ELSE Let(compile(Model(<<input_rgb, input_ppg>>, <<combined_branch2>>), Adam(slf.learning_rate),
                   NamedLoss("categorical_crossentropy"),
                   <<"accuracy", "APCER", "BPCER", "ACER">>), LAMBDA model :
       Return(model, IF slf.verbose = True THEN <<Summary>> ELSE <<>>))))))))))))))

\* ConvWithBN of DeepConvolutionalRPPG.build_model.
DeepConvolutionalRPPG_ConvWithBN(input_layer, filters) ==
  Let(Conv1D(input_layer, filters, 5, 2, "linear"), LAMBDA x1 :
  Let(BatchNormalization(x1), LAMBDA x2 :
  Activation(x2, "relu")))

DeepConvolutionalRPPG_build_model(slf, input_dim) ==
  Let(Input(<<input_dim, 3>>, "input_rgb"), LAMBDA input_rgb :
  Let(Input(<<input_dim, 1>>, "input_ppg"), LAMBDA input_ppg :
  Let(DeepConvolutionalRPPG_ConvWithBN(input_rgb, 64), LAMBDA rgb_branch1 :
  Let(DeepConvolutionalRPPG_ConvWithBN(rgb_branch1, 128), LAMBDA rgb_branch2 :
  Let(DeepConvolutionalRPPG_ConvWithBN(input_ppg, 64), LAMBDA ppg_branch1 :
  Let(DeepConvolutionalRPPG_ConvWithBN(ppg_branch1, 128), LAMBDA ppg_branch2 :
  Let(GlobalAveragePooling1D(rgb_branch2), LAMBDA rgb_branch3 :
  Let(GlobalAveragePooling1D(ppg_branch2), LAMBDA ppg_branch3 :
  Let(Concatenate(rgb_branch3, ppg_branch3), LAMBDA combined_branch1 :
  Let(Dense(combined_branch1, 2, "softmax"), LAMBDA combined_branch2 :
  IF combined_branch2.raised THEN Raise("ValueError")
  ELSE IF ~(HasAttr(slf, "learning_rate") /\ HasAttr(slf, "verbose"))
  THEN Raise("AttributeError")
  ELSE Let(compile(Model(<<input_rgb, input_ppg>>, <<combined_branch2>>), Adam(slf.learning_rate),
                   NamedLoss("categorical_crossentropy"),
                   <<"accuracy", "APCER", "BPCER", "ACER">>), LAMBDA model :
       Return(model, IF slf.verbose = True THEN <<Summary>> ELSE <<>>))))))))))))

TripletRGB_build_model(slf, input_shape) ==
  Let(Input(input_shape, ""), LAMBDA input_layer :
  Let(Conv1D(input_layer, 64, 5, 2, "linear"), LAMBDA embeddings1 :
  Let(BatchNormalization(embeddings1), LAMBDA embeddings2 :
  Let(Activation(embeddings2, "relu"), LAMBDA embeddings3 :
  Let(Conv1D(embeddings3, 128, 5, 2, "linear"), LAMBDA embeddings4 :
  Let(BatchNormalization(embeddings4), LAMBDA embeddings5 :
  Let(Activation(embeddings5, "relu"), LAMBDA embeddings6 :
  Let(GlobalAveragePooling1D(embeddings6), LAMBDA embeddings7 :
  Let(LambdaL2Normalize(embeddings7), LAMBDA embeddings :
  Let(Dense(embeddings, 2, "softmax"), LAMBDA classification :
  IF classification.raised THEN Raise("ValueError")
  ELSE IF ~(HasAttr(slf, "learning_rate") /\ HasAttr(slf, "verbose"))
  THEN Raise("AttributeError")
  ELSE Let(compile(Model(<<input_layer>>, <<classification>>), Adam(slf.learning_rate),
                   TripletClosure("TripletRGB", "1.0", embeddings),
                   <<"accuracy", "APCER", "BPCER", "ACER">>), LAMBDA model :
       Return(model, IF slf.verbose = True THEN <<Summary>> ELSE <<>>))))))))))))

\* ConvWithBN of TripletRPPG.build_model.
TripletRPPG_ConvWithBN(input_layer, filters) ==
  Let(Conv1D(input_layer, filters, 5, 2, "linear"), LAMBDA x1 :
  Let(BatchNormalization(x1), LAMBDA x2 :
  Activation(x2, "relu")))

TripletRPPG_build_model(slf, input_dim) ==
  Let(Input(<<input_dim, 3>>, "input_rgb"), LAMBDA input_rgb :
  Let(Input(<<input_dim, 1>>, "input_ppg"), LAMBDA input_ppg :
  Let(TripletRPPG_ConvWithBN(input_rgb, 64), LAMBDA rgb_branch1 :
  Let(TripletRPPG_ConvWithBN(rgb_branch1, 128), LAMBDA rgb_branch2 :
  Let(TripletRPPG_ConvWithBN(input_ppg, 64), LAMBDA ppg_branch1 :
  Let(TripletRPPG_ConvWithBN(ppg_branch1, 128), LAMBDA ppg_branch2 :
  Let(GlobalAveragePooling1D(rgb_branch2), LAMBDA rgb_branch3 :
  Let(GlobalAveragePooling1D(ppg_branch2), LAMBDA ppg_branch3 :
  Let(Concatenate(rgb_branch3, ppg_branch3), LAMBDA combined_branch :
  Let(LambdaL2Normalize(combined_branch), LAMBDA embeddings :
  Let(Dense(embeddings, 2, "softmax"), LAMBDA classification :
  IF classification.raised THEN Raise("ValueError")
  ELSE IF ~(HasAttr(slf, "learning_rate") /\ HasAttr(slf, "verbose"))
  THEN Raise("AttributeError")
  ELSE Let(compile(Model(<<input_rgb, input_ppg>>, <<classification>>), Adam(slf.learning_rate),
                   TripletClosure("TripletRPPG", "1.0", embeddings),
                   <<"accuracy", "APCER", "BPCER", "ACER">>), LAMBDA model :
       Return(model, IF slf.verbose = True THEN <<Summary>> ELSE <<>>)))))))))))))

\* ------------------------------------------------------- constructors

RGBClasses == {"FlatRGB", "SimpleConvolutionalRGB", "DeepConvolutionalRGB", "TripletRGB"}
RPPGClasses ==
  {"FlatRPPG", "SimpleConvolutionalRPPG", "DeepConvolutionalRPPG", "TripletRPPG"}
TripletClasses == {"TripletRGB", "TripletRPPG"}

\* One call of build_model as the trace keeps it: the attributes self had
\* when it was called, and what it handed back.
BuildCall(slf, r) ==
  [attrs |-> DOMAIN slf, outcome |-> r.outcome, error |-> r.error, value |-> r.value]

\* self.build_model(input_shape=...) looked up on the class of the instance;
\* GenericArchitecture itself defines none.
DefinesBuildModel(c) == c \in RGBClasses \cup RPPGClasses
build_model(c, slf, input_shape) ==
  CASE c = "FlatRGB" -> FlatRGB_build_model(slf, input_shape)
    [] c = "SimpleConvolutionalRGB" -> SimpleConvolutionalRGB_build_model(slf, input_shape)
    [] c = "DeepConvolutionalRGB" -> DeepConvolutionalRGB_build_model(slf, input_shape)
    [] c = "TripletRGB" -> TripletRGB_build_model(slf, input_shape)

\* GenericArchitecture.__init__, inherited by the four RGB classes; lr and
\* verbose default to 1e-4 and False.
GenericArchitecture__init__(c, dimension, kwargs) ==
  Let(SetAttr(SetAttr(NewObject, "learning_rate", Param(kwargs, "lr", "1e-4")),
              "verbose", Param(kwargs, "verbose", False)), LAMBDA s1 :
  IF ~DefinesBuildModel(c)
  THEN [self |-> s1, builds |-> <<>>, framework |-> <<>>,
        outcome |-> "raise", error |-> "AttributeError"]
  ELSE Let(build_model(c, s1, <<dimension, 3>>), LAMBDA r :
       [self |-> IF r.outcome = "return" THEN SetAttr(s1, "model", r.value) ELSE s1,
        builds |-> <<BuildCall(s1, r)>>, framework |-> r.framework,
        outcome |-> r.outcome, error |-> r.error]))

\* FlatRPPG.__init__
FlatRPPG__init__(dimension, kwargs) ==
  Let(SetAttr(SetAttr(NewObject, "learning_rate", Param(kwargs, "lr", "1e-4")),
              "verbose", Param(kwargs, "verbose", False)), LAMBDA s1 :
  Let(FlatRPPG_build_model(s1, dimension), LAMBDA r :
  [self |-> IF r.outcome = "return" THEN SetAttr(s1, "model", r.value) ELSE s1,
   builds |-> <<BuildCall(s1, r)>>, framework |-> r.framework,
   outcome |-> r.outcome, error |-> r.error]))

\* SimpleConvolutionalRPPG.__init__
SimpleConvolutionalRPPG__init__(dimension, kwargs) ==
  Let(SetAttr(SetAttr(NewObject, "learning_rate", Param(kwargs, "lr", "1e-4")),
              "verbose", Param(kwargs, "verbose", False)), LAMBDA s1 :
  Let(SimpleConvolutionalRPPG_build_model(s1, dimension), LAMBDA r :
  [self |-> IF r.outcome = "return" THEN SetAttr(s1, "model", r.value) ELSE s1,
   builds |-> <<BuildCall(s1, r)>>, framework |-> r.framework,
   outcome |-> r.outcome, error |-> r.error]))

\* DeepConvolutionalRPPG.__init__
DeepConvolutionalRPPG__init__(dimension, kwargs) ==
  Let(SetAttr(SetAttr(NewObject, "learning_rate", Param(kwargs, "lr", "1e-4")),
              "verbose", Param(kwargs, "verbose", False)), LAMBDA s1 :
  Let(DeepConvolutionalRPPG_build_model(s1, dimension), LAMBDA r :
  [self |-> IF r.outcome = "return" THEN SetAttr(s1, "model", r.value) ELSE s1,
   builds |-> <<BuildCall(s1, r)>>, framework |-> r.framework,
   outcome |-> r.outcome, error |-> r.error]))

\* TripletRPPG.__init__
TripletRPPG__init__(dimension, kwargs) ==
  Let(SetAttr(SetAttr(NewObject, "learning_rate", Param(kwargs, "lr", "1e-4")),
              "verbose", Param(kwargs, "verbose", False)), LAMBDA s1 :
  Let(TripletRPPG_build_model(s1, dimension), LAMBDA r :
  [self |-> IF r.outcome = "return" THEN SetAttr(s1, "model", r.value) ELSE s1,
   builds |-> <<BuildCall(s1, r)>>, framework |-> r.framework,
   outcome |-> r.outcome, error |-> r.error]))

\* c(dimension, **kwargs): the __init__ the class c has.
New(c, dimension, kwargs) ==
  CASE c = "FlatRPPG" -> FlatRPPG__init__(dimension, kwargs)
    [] c = "SimpleConvolutionalRPPG" -> SimpleConvolutionalRPPG__init__(dimension, kwargs)
    [] c = "DeepConvolutionalRPPG" -> DeepConvolutionalRPPG__init__(dimension, kwargs)
    [] c = "TripletRPPG" -> TripletRPPG__init__(dimension, kwargs)
    [] OTHER -> GenericArchitecture__init__(c, dimension, kwargs)

\* ------------------------------------------------------- methods

\* A method hands back the object as it leaves it and the record of the
\* call: the build_model and framework calls it made, how it ended, and
\* what it returned.

\* fit assigning the wrong way round: self.verbose = kwargs['verbose'].
GenericArchitecture_fit_StoresVerbose(c, slf, kwargs, fw) ==
  Let(IF HasKey(kwargs, "verbose")
      THEN [slf EXCEPT !.verbose = GetItem(kwargs, "verbose")] ELSE slf, LAMBDA s2 :
  Let([method |-> "fit", kwargs |-> SetItem(kwargs, "verbose", s2.verbose),
       outcome |-> fw], LAMBDA call :
  [self |-> s2,
   entry |-> IF fw = "ok"
             THEN [call |-> "fit", kwargs |-> kwargs, builds |-> <<>>,
                   framework |-> <<call>>, outcome |-> "return", error |-> None,
                   value |-> None]
             ELSE [call |-> "fit", kwargs |-> kwargs, builds |-> <<>>,
                   framework |-> <<call>>, outcome |-> "raise", error |-> fw]]))

\* fit with kwargs.setdefault('verbose', self.verbose): the caller's is kept.
GenericArchitecture_fit_SetDefault(c, slf, kwargs, fw) ==
  Let([method |-> "fit",
       kwargs |-> IF HasKey(kwargs, "verbose") THEN kwargs
                  ELSE SetItem(kwargs, "verbose", slf.verbose),
       outcome |-> fw], LAMBDA call :
  [self |-> slf,
   entry |-> IF fw = "ok"
             THEN [call |-> "fit", kwargs |-> kwargs, builds |-> <<>>,
                   framework |-> <<call>>, outcome |-> "return", error |-> None,
                   value |-> None]
             ELSE [call |-> "fit", kwargs |-> kwargs, builds |-> <<>>,
                   framework |-> <<call>>, outcome |-> "raise", error |-> fw]])

\* GenericArchitecture.fit with keyword arguments kwargs; fw is how the framework's fit ends.
GenericArchitecture_fit(c, slf, kwargs, fw) ==
  Let(SetItem(kwargs, "verbose", slf.verbose), LAMBDA kwargs1 :
  Let([method |-> "fit", kwargs |-> kwargs1, outcome |-> fw], LAMBDA call :
  [self |-> slf,
   entry |-> IF fw = "ok"
             THEN [call |-> "fit", kwargs |-> kwargs, builds |-> <<>>,
                   framework |-> <<call>>, outcome |-> "return", error |-> None,
                   value |-> None]
             ELSE [call |-> "fit", kwargs |-> kwargs, builds |-> <<>>,
                   framework |-> <<call>>, outcome |-> "raise", error |-> fw]]))

\* zip(a, b) and dict(pairs): a later pair replaces an earlier one with its key.
zip(a, b) ==
  [i \in 1..(IF Len(a) <= Len(b) THEN Len(a) ELSE Len(b)) |-> <<a[i], b[i]>>]
dict(pairs) ==
  {pairs[i] : i \in {j \in 1..Len(pairs) :
                       \A k \in (j + 1)..Len(pairs) : pairs[k][1] # pairs[j][1]}}

\* "{0} : {1}".format(arch_name, results), kept as its three parts.
Format(arch_name, results) == <<arch_name, " : ", results>>

\* What model.evaluate returns: one scalar per entry of metrics_names.
Evaluation(model, seed) == [i \in 1..Len(metrics_names(model)) |-> seed + i]

\* The body of evaluate when the framework's evaluate returned.
EvaluateReturns(arch_name, slf, x, y, call, evaluation) ==
  [self |-> slf,
   entry |-> [call |-> "evaluate", x |-> x, y |-> y, builds |-> <<>>,
              framework |-> <<call>>, outcome |-> "return", error |-> None,
              evaluation |-> evaluation,
              str_representation |->
                Format(arch_name, dict(zip(metrics_names(slf.model), evaluation)))]]

\* evaluate catching the framework's error and reporting no results.
GenericArchitecture_evaluate_Swallows(c, slf, x, y, fw, seed) ==
  EvaluateReturns(c, slf, x, y,
                  [method |-> "evaluate", x |-> x, y |-> y, verbose |-> slf.verbose,
                   outcome |-> fw],
                  IF fw = "ok" THEN Evaluation(slf.model, seed) ELSE <<>>)

\* evaluate naming the class that defines it, not the class of the instance.
GenericArchitecture_evaluate_BaseName(c, slf, x, y, fw, seed) ==
  IF fw # "ok"
  THEN [self |-> slf,
        entry |-> [call |-> "evaluate", x |-> x, y |-> y, builds |-> <<>>,
                   framework |-> <<[method |-> "evaluate", x |-> x, y |-> y,
                                    verbose |-> slf.verbose, outcome |-> fw]>>,
                   outcome |-> "raise", error |-> fw]]
  ELSE EvaluateReturns("GenericArchitecture", slf, x, y,
                       [method |-> "evaluate", x |-> x, y |-> y,
                        verbose |-> slf.verbose, outcome |-> fw],
                       Evaluation(slf.model, seed))

\* GenericArchitecture.evaluate(x, y); fw is how the framework's evaluate
\* ends and seed decides the scalars it returns.
GenericArchitecture_evaluate(c, slf, x, y, fw, seed) ==
  Let([method |-> "evaluate", x |-> x, y |-> y, verbose |-> slf.verbose,
       outcome |-> fw], LAMBDA call :
  IF fw # "ok"
  THEN [self |-> slf,
        entry |-> [call |-> "evaluate", x |-> x, y |-> y, builds |-> <<>>,
                   framework |-> <<call>>, outcome |-> "raise", error |-> fw]]
  ELSE Let(c, LAMBDA arch_name :
       Let(Evaluation(slf.model, seed), LAMBDA evaluation :
       Let(dict(zip(metrics_names(slf.model), evaluation)), LAMBDA results :
       Let(Format(arch_name, results), LAMBDA str_representation :
       [self |-> slf,
        entry |-> [call |-> "evaluate", x |-> x, y |-> y, builds |-> <<>>,
                   framework |-> <<call>>, outcome |-> "return", error |-> None,
                   evaluation |-> evaluation,
                   str_representation |-> str_representation]])))))

GenericArchitecture_get_model(c, slf) ==
  [self |-> slf,
   entry |-> [call |-> "get_model", builds |-> <<>>, framework |-> <<>>,
              outcome |-> "return", error |-> None, model |-> slf.model]]

\* uses_rppg with TripletRGB's copied from TripletRPPG.
uses_rppg_TripletCopied(c) ==
  IF c \in {"FlatRPPG", "SimpleConvolutionalRPPG", "DeepConvolutionalRPPG",
            "TripletRGB", "TripletRPPG"}
  THEN True ELSE False

\* uses_rppg of the class c.
uses_rppg(c) ==
  CASE c = "FlatRGB" -> False
    [] c = "SimpleConvolutionalRGB" -> False
    [] c = "DeepConvolutionalRGB" -> False
    [] c = "FlatRPPG" -> True
    [] c = "SimpleConvolutionalRPPG" -> True
    [] c = "DeepConvolutionalRPPG" -> True
    [] c = "TripletRGB" -> False
    [] c = "TripletRPPG" -> True

\* The compiled loss of a triplet topology applied to one batch.
CompiledLoss(loss, y_true, y_pred) ==
  CASE loss.owner = "TripletRGB" ->
         TripletRGB_triplet_loss(loss.margin, loss.embeddings, y_true, y_pred)
    [] loss.owner = "TripletRPPG" ->
         TripletRPPG_triplet_loss(loss.margin, loss.embeddings, y_true, y_pred)

\* ------------------------------------------------------- inputs

Dimensions == 1..MaxDim
\* The keyword arguments a constructor is called with besides dimension.
InitKwargs ==
  {{}, {<<"lr", "1e-2">>}, {<<"verbose", True>>}, {<<"lr", "1e-2">>, <<"verbose", True>>}}
\* The keyword arguments fit is called with.
FitKwargs == {{}, {<<"verbose", True>>}, {<<"epochs", "1">>, <<"verbose", False>>}}
\* How a framework call ends: normally, or with an error of the framework's.
FrameworkOutcomes == {"ok", "FrameworkError"}
XValues == {"x1", "x2"}
YValues == {"y1"}
EvalSeeds == {10, 20}
\* Batches of one-hot labels, and of predictions.
YTrue == {<< <<1, 0>> >>, << <<0, 1>>, <<1, 0>> >>}
YPred == {"p1", "p2"}
Margins == {"1.0", "0.5"}

\* ------------------------------------------------------- actions

Init ==
  /\ self = NewObject
  /\ pc = "new"
  /\ trace = <<>>

\* type(self)
TypeName == trace[1].cls

Construct(c, dimension, kwargs) ==
  /\ pc = "new"
  /\ \E r \in {New(c, dimension, kwargs)} :
        /\ self' = r.self
        /\ pc' = IF r.outcome = "return" THEN "live" ELSE "failed"
        /\ trace' = <<[call |-> "__init__", cls |-> c, dimension |-> dimension,
                       kwargs |-> kwargs, builds |-> r.builds,
                       framework |-> r.framework, outcome |-> r.outcome,
                       error |-> r.error]>>

CanCall == pc = "live" /\ Len(trace) < 1 + MaxCalls

Fit(kwargs, fw) ==
  /\ CanCall
  /\ \E r \in {GenericArchitecture_fit(TypeName, self, kwargs, fw)} :
        self' = r.self /\ trace' = Append(trace, r.entry)
  /\ UNCHANGED pc

Evaluate(x, y, fw, seed) ==
  /\ CanCall
  /\ \E r \in {GenericArchitecture_evaluate(TypeName, self, x, y, fw, seed)} :
        self' = r.self /\ trace' = Append(trace, r.entry)
  /\ UNCHANGED pc

GetModel ==
  /\ CanCall
  /\ \E r \in {GenericArchitecture_get_model(TypeName, self)} :
        self' = r.self /\ trace' = Append(trace, r.entry)
  /\ UNCHANGED pc

UsesRppg ==
  /\ CanCall
  /\ trace' = Append(trace, [call |-> "uses_rppg", builds |-> <<>>, framework |-> <<>>,
                             outcome |-> "return", error |-> None,
                             value |-> uses_rppg(TypeName)])
  /\ UNCHANGED <<self, pc>>

\* The framework applies the compiled loss function to a batch.
LossCall(y_true, y_pred) ==
  /\ CanCall
  /\ self.model.loss.kind = "closure"
  /\ trace' = Append(trace, [call |-> "__triplet_loss", y_true |-> y_true,
                             y_pred |-> y_pred, builds |-> <<>>, framework |-> <<>>,
                             outcome |-> "return", error |-> None,
                             loss |-> CompiledLoss(self.model.loss, y_true, y_pred)])
  /\ UNCHANGED <<self, pc>>

Next ==
  \/ \E c \in Classes, d \in Dimensions, kw \in InitKwargs : Construct(c, d, kw)
  \/ \E kw \in FitKwargs, fw \in FrameworkOutcomes : Fit(kw, fw)
  \/ \E x \in XValues, y \in YValues, fw \in FrameworkOutcomes, seed \in EvalSeeds :
       Evaluate(x, y, fw, seed)
  \/ GetModel
  \/ UsesRppg
  \/ \E yt \in YTrue, yp \in YPred : LossCall(yt, yp)

Spec == Init /\ [][Next]_vars

\* ------------------------------------------------------- properties

Constructed == Len(trace) >= 1
Live == pc = "live"
Ctor == trace[1]
MethodCalls == 2..Len(trace)
ConcreteClasses == RGBClasses \cup RPPGClasses

\* The lr and verbose a constructor call stands for, defaults included.
CtorLr ==
  IF \E p \in Ctor.kwargs : p[1] = "lr"
  THEN (CHOOSE p \in Ctor.kwargs : p[1] = "lr")[2] ELSE "1e-4"
CtorVerbose ==
  IF \E p \in Ctor.kwargs : p[1] = "verbose"
  THEN (CHOOSE p \in Ctor.kwargs : p[1] = "verbose")[2] ELSE "False"

\* Every tensor of the graph that ends in t, and its input tensors.
RECURSIVE TensorsOf(_)
TensorsOf(t) == {t} \cup UNION {TensorsOf(t.inbound[i]) : i \in 1..Len(t.inbound)}
InputsOf(t) == {u \in TensorsOf(t) : u.layer.class = "InputLayer"}

\* t is relu(BatchNormalization(Conv1D(...))) with the given filters.
IsConvFeatures(t, filters) ==
  /\ t.layer = [class |-> "Activation", activation |-> "relu"]
  /\ t.inbound[1].layer.class = "BatchNormalization"
  /\ t.inbound[1].inbound[1].layer.class = "Conv1D"
  /\ t.inbound[1].inbound[1].layer.filters = filters
\* t is the global average pooling of convolutional features.
IsPooledFeatures(t, filters) ==
  /\ t.layer.class = "GlobalAveragePooling1D"
  /\ IsConvFeatures(t.inbound[1], filters)

(* C1: the model each of the eight topologies builds has exactly one input  *)
(* for the RGB classes and exactly two for the RPPG classes, all of them    *)
(* the inputs its output is computed from, and a single output that is a    *)
(* Dense layer of 2 units with softmax activation.                          *)
C1_TwoClassOutput ==
  Live =>
    LET m == self.model
    IN /\ TypeName \in ConcreteClasses
       /\ Len(m.inputs) = (IF TypeName \in RGBClasses THEN 1 ELSE 2)
       /\ Len(m.outputs) = 1
       /\ {m.inputs[i] : i \in 1..Len(m.inputs)} = InputsOf(m.outputs[1])
       /\ Cardinality(InputsOf(m.outputs[1])) = Len(m.inputs)
       /\ m.outputs[1].layer = [class |-> "Dense", units |-> 2, activation |-> "softmax"]
       /\ m.outputs[1].shape = <<2>>

C1_Witness ==
  /\ Live
  /\ TypeName = "TripletRPPG"
  /\ Len(self.model.inputs) = 2
  /\ self.model.outputs[1].layer.class = "Dense"

(* C2: with dimension D, an RGB class has one input of shape (D, 3); an     *)
(* RPPG class has input_rgb of shape (D, 3) and then input_ppg of shape     *)
(* (D, 1); uses_rppg() returns True exactly for the topologies that have    *)
(* the 1-channel input.                                                     *)
C2_InputShapes ==
  Live =>
    LET m == self.model
        D == Ctor.dimension
    IN /\ \A i \in 1..Len(m.inputs) :
            /\ Len(m.inputs[i].shape) = 2
            /\ m.inputs[i].shape[1] = D
            /\ m.inputs[i].shape[2] \in {1, 3}
       /\ TypeName \in RGBClasses =>
            /\ Len(m.inputs) = 1
            /\ m.inputs[1].shape = <<D, 3>>
       /\ TypeName \in RPPGClasses =>
            /\ Len(m.inputs) = 2
            /\ m.inputs[1].layer.name = "input_rgb"
            /\ m.inputs[1].shape = <<D, 3>>
            /\ m.inputs[2].layer.name = "input_ppg"
            /\ m.inputs[2].shape = <<D, 1>>
       /\ \A k \in MethodCalls :
            trace[k].call = "uses_rppg" =>
              /\ trace[k].outcome = "return"
              /\ trace[k].value \in {"True", "False"}
              /\ trace[k].value = "True" <=>
                   \E i \in 1..Len(m.inputs) : m.inputs[i].shape[2] = 1

C2_Witness ==
  /\ Live
  /\ TypeName = "SimpleConvolutionalRPPG"
  /\ \E k \in MethodCalls : trace[k].call = "uses_rppg" /\ trace[k].value = "True"

(* C3: the model build_model returns is compiled, with Adam whose learning  *)
(* rate is the constructor's lr (1e-4 when omitted), the metrics accuracy,  *)
(* APCER, BPCER, ACER in that order, and the loss categorical_crossentropy  *)
(* for the six non-triplet topologies and the combined loss function for    *)
(* TripletRGB and TripletRPPG.                                              *)
C3_Compiled ==
  Constructed =>
    \A b \in 1..Len(Ctor.builds) :
      Ctor.builds[b].outcome = "return" =>
        LET m == Ctor.builds[b].value
        IN /\ m.compiled
           /\ m.optimizer = [class |-> "Adam", lr |-> CtorLr]
           /\ m.metrics = <<"accuracy", "APCER", "BPCER", "ACER">>
           /\ Ctor.cls \notin TripletClasses =>
                m.loss = [kind |-> "named", name |-> "categorical_crossentropy"]
           /\ Ctor.cls \in TripletClasses =>
                /\ m.loss.kind = "closure"
                /\ m.loss.name = "__triplet_loss"
                /\ m.loss.owner = Ctor.cls

C3_Witness ==
  /\ Live
  /\ TypeName = "DeepConvolutionalRPPG"
  /\ CtorLr = "1e-2"
  /\ self.model.compiled

\* argmax over axis 1 of a batch of two-class rows.
LabelsOf(y_true) == [r \in 1..Len(y_true) |-> IF y_true[r][1] >= y_true[r][2] THEN 0 ELSE 1]

(* C4: in TripletRGB and TripletRPPG the loss of a batch is                 *)
(* triplet_semihard_loss(argmax(y_true, axis=1), embeddings) +              *)
(* categorical_crossentropy(y_true, y_pred), embeddings being the           *)
(* L2-normalised (axis 1) global-average-pooled convolutional features (of  *)
(* both branches, concatenated, for TripletRPPG) and the input of the       *)
(* final 2-unit softmax classifier.                                         *)
C4_TripletLoss ==
  (Live /\ TypeName \in TripletClasses) =>
    LET m == self.model
        e == m.loss.embeddings
    IN /\ e.layer = [class |-> "Lambda", function |-> "l2_normalize", axis |-> 1]
       /\ Len(e.inbound) = 1
       /\ m.outputs[1].inbound = <<e>>
       /\ m.outputs[1].layer = [class |-> "Dense", units |-> 2, activation |-> "softmax"]
       /\ TypeName = "TripletRGB" => IsPooledFeatures(e.inbound[1], 128)
       /\ TypeName = "TripletRPPG" =>
            /\ e.inbound[1].layer.class = "Concatenate"
            /\ Len(e.inbound[1].inbound) = 2
            /\ IsPooledFeatures(e.inbound[1].inbound[1], 128)
            /\ IsPooledFeatures(e.inbound[1].inbound[2], 128)
            /\ InputsOf(e.inbound[1].inbound[1]) = {m.inputs[1]}
            /\ InputsOf(e.inbound[1].inbound[2]) = {m.inputs[2]}
       /\ \A k \in MethodCalls :
            trace[k].call = "__triplet_loss" =>
              trace[k].loss =
                [fn |-> "add",
                 a |-> [fn |-> "triplet_semihard_loss", labels |-> LabelsOf(trace[k].y_true),
                        embeddings |-> e, margin |-> "1.0"],
                 b |-> [fn |-> "categorical_crossentropy", y_true |-> trace[k].y_true,
                        y_pred |-> trace[k].y_pred]]

C4_Witness ==
  /\ Live
  /\ TypeName = "TripletRPPG"
  /\ \E k \in MethodCalls :
       /\ trace[k].call = "__triplet_loss"
       /\ Len(trace[k].y_true) = 2
       /\ trace[k].loss.a.labels = <<1, 0>>

(* C5: a constructor calls build_model exactly once, after it assigned      *)
(* learning_rate and verbose, and stores the result in self.model; after    *)
(* any calls of fit, evaluate, get_model and uses_rppg build_model has      *)
(* still been called once, get_model returned that model, and               *)
(* learning_rate and verbose are as constructed.                            *)
C5_BuiltOnce ==
  Live =>
    /\ Len(Ctor.builds) = 1
    /\ Ctor.builds[1].attrs = {"learning_rate", "verbose"}
    /\ Ctor.builds[1].outcome = "return"
    /\ \A k \in MethodCalls : trace[k].builds = <<>>
    /\ DOMAIN self = {"learning_rate", "verbose", "model"}
    /\ self.model = Ctor.builds[1].value
    /\ self.learning_rate = CtorLr
    /\ self.verbose = CtorVerbose
    /\ \A k \in MethodCalls :
         trace[k].call = "get_model" =>
           trace[k].outcome = "return" /\ trace[k].model = Ctor.builds[1].value

C5_Witness ==
  /\ Live
  /\ Len(trace) = 3
  /\ trace[2].call = "fit"
  /\ \E p \in trace[2].kwargs : p[1] = "verbose" /\ p[2] # CtorVerbose
  /\ trace[3].call = "get_model"

(* C6: nothing is caught: when the framework's fit or evaluate raises, the  *)
(* call made once ends with that error and no return value; when            *)
(* build_model raises, the constructor ends with that error, self.model is  *)
(* not assigned and no instance is returned; constructing                   *)
(* GenericArchitecture itself fails, build_model not being defined.         *)
C6_ErrorsPropagate ==
  /\ \A k \in MethodCalls :
       trace[k].call \in {"fit", "evaluate"} =>
         /\ Len(trace[k].framework) = 1
         /\ trace[k].framework[1].outcome = "ok" => trace[k].outcome = "return"
         /\ trace[k].framework[1].outcome # "ok" =>
              /\ trace[k].outcome = "raise"
              /\ trace[k].error = trace[k].framework[1].outcome
              /\ DOMAIN trace[k] \cap {"value", "str_representation", "evaluation"} = {}
  /\ Constructed =>
       /\ Live <=> Ctor.outcome = "return"
       /\ pc = "failed" <=> Ctor.outcome = "raise"
       /\ Len(Ctor.builds) <= 1
       /\ (Len(Ctor.builds) = 1 /\ Ctor.builds[1].outcome = "raise") =>
            /\ Ctor.outcome = "raise"
            /\ Ctor.error = Ctor.builds[1].error
            /\ ~HasAttr(self, "model")
       /\ Ctor.cls = "GenericArchitecture" =>
            /\ Ctor.outcome = "raise"
            /\ Ctor.error = "AttributeError"
            /\ Ctor.builds = <<>>
            /\ ~HasAttr(self, "model")

C6_Witness ==
  /\ pc = "failed"
  /\ Ctor.cls = "DeepConvolutionalRPPG"
  /\ Len(Ctor.builds) = 1
  /\ Ctor.builds[1].error = "ValueError"
  /\ Ctor.error = "ValueError"

(* C7: for every topology, fit with keyword arguments kwargs calls the framework's fit exactly  *)
(* once with the caller's keyword arguments in which 'verbose' is the       *)
(* instance's verbose, replacing the caller's or added when absent, every   *)
(* other keyword unchanged; fit returns None.                               *)
C7_FitForwards ==
  \A k \in MethodCalls :
    trace[k].call = "fit" =>
      /\ Len(trace[k].framework) = 1
      /\ trace[k].framework[1].method = "fit"
      /\ trace[k].framework[1].kwargs =
           {p \in trace[k].kwargs : p[1] # "verbose"} \cup {<<"verbose", CtorVerbose>>}
      /\ trace[k].outcome = "return" => trace[k].value = "None"

C7_Witness ==
  /\ Live
  /\ TypeName = "TripletRPPG"
  /\ CtorVerbose = "True"
  /\ \E k \in MethodCalls :
       /\ trace[k].call = "fit"
       /\ trace[k].kwargs = {<<"epochs", "1">>, <<"verbose", "False">>}
       /\ trace[k].outcome = "return"
       /\ trace[k].framework[1].kwargs = {<<"epochs", "1">>, <<"verbose", "True">>}

(* C8: evaluate(x, y) calls the framework's evaluate(x, y, verbose =        *)
(* self.verbose) exactly once and returns '<name> : <results>', name being  *)
(* the concrete class and results pairing the i-th of metrics_names with    *)
(* the i-th value returned: the loss, accuracy, APCER, BPCER and ACER; it   *)
(* stores nothing on the instance, and two evaluate calls in a row with     *)
(* the same x and y make the same framework call.                           *)
C8_Evaluate ==
  /\ \A k \in MethodCalls :
       trace[k].call = "evaluate" =>
         /\ Len(trace[k].framework) = 1
         /\ trace[k].framework[1].method = "evaluate"
         /\ trace[k].framework[1].x = trace[k].x
         /\ trace[k].framework[1].y = trace[k].y
         /\ trace[k].framework[1].verbose = CtorVerbose
         /\ DOMAIN self = {"learning_rate", "verbose", "model"}
         /\ self.model = Ctor.builds[1].value
         /\ trace[k].outcome = "return" =>
              LET names == metrics_names(self.model)
                  str == trace[k].str_representation
              IN /\ Len(names) = 5
                 /\ Len(trace[k].evaluation) = 5
                 /\ names[1] = "loss"
                 /\ <<names[3], names[4], names[5]>> = <<"APCER", "BPCER", "ACER">>
                 /\ str[1] = Ctor.cls
                 /\ str[1] \in ConcreteClasses
                 /\ str[2] = " : "
                 /\ str[3] = {<<names[i], trace[k].evaluation[i]>> : i \in 1..5}
                 /\ Cardinality(str[3]) = 5
  /\ \A k \in MethodCalls :
       (/\ k + 1 \in MethodCalls
        /\ trace[k].call = "evaluate"
        /\ trace[k + 1].call = "evaluate"
        /\ trace[k].x = trace[k + 1].x
        /\ trace[k].y = trace[k + 1].y) =>
         [f \in {"method", "x", "y", "verbose"} |-> trace[k].framework[1][f]] =
           [f \in {"method", "x", "y", "verbose"} |-> trace[k + 1].framework[1][f]]

C8_Witness ==
  /\ Live
  /\ TypeName = "SimpleConvolutionalRGB"
  /\ Len(trace) = 3
  /\ trace[2].call = "evaluate" /\ trace[2].outcome = "return"
  /\ trace[3].call = "evaluate" /\ trace[3].outcome = "return"
  /\ trace[2].x = trace[3].x
  /\ trace[2].evaluation # trace[3].evaluation

\* The smallest dimension a topology can be built with, and the width of
\* what its classifier is given, by topology.
MinDimension(c) ==
  CASE c \in {"FlatRGB", "FlatRPPG"} -> 1
    [] c \in {"SimpleConvolutionalRGB", "SimpleConvolutionalRPPG"} -> 5
    [] OTHER -> 13
ClassifierWidth(c, D) ==
  CASE c = "FlatRGB" -> 3 * D
    [] c = "FlatRPPG" -> 4 * D
    [] c = "SimpleConvolutionalRGB" -> 64
    [] c \in {"SimpleConvolutionalRPPG", "DeepConvolutionalRGB", "TripletRGB"} -> 128
    [] c \in {"DeepConvolutionalRPPG", "TripletRPPG"} -> 256

(* C9: every Conv1D has kernel size 5 and no padding, so its output length  *)
(* is floor((L - 5) / stride) + 1; FlatRGB and FlatRPPG are constructible   *)
(* for every D >= 1 and give the classifier 3*D and 4*D features; the       *)
(* stride-1 topologies are constructible exactly when D >= 5 and the        *)
(* topologies with two stride-2 convolutions exactly when D >= 13; the      *)
(* classifier input of a convolutional topology is 64, 128 or 256 wide,     *)
(* whatever D is.                                                           *)
C9_ShapeCompatibility ==
  (Constructed /\ Ctor.cls \in ConcreteClasses) =>
    /\ Ctor.outcome = "return" <=> Ctor.dimension >= MinDimension(Ctor.cls)
    /\ Ctor.outcome = "raise" => Ctor.error = "ValueError"
    /\ Ctor.outcome = "return" =>
         LET out == self.model.outputs[1]
         IN /\ out.inbound[1].shape = <<ClassifierWidth(Ctor.cls, Ctor.dimension)>>
            /\ \A t \in TensorsOf(out) :
                 t.layer.class = "Conv1D" =>
                   LET L == t.inbound[1].shape[1]
                       s == t.layer.strides
                   IN /\ t.layer.kernel_size = 5
                      /\ t.layer.padding = "valid"
                      /\ t.shape[1] >= 1
                      /\ (t.shape[1] - 1) * s <= L - 5
                      /\ L - 5 < t.shape[1] * s

C9_Witness ==
  /\ Live
  /\ TypeName = "DeepConvolutionalRGB"
  /\ Ctor.dimension = 13
  /\ self.model.outputs[1].inbound[1].shape = <<128>>

(* C10: in TripletRGB and TripletRPPG the loss of a batch is the same       *)
(* whatever margin triplet_loss was called with, and its triplet term is    *)
(* the same whatever y_pred is.                                             *)
C10_MarginIgnored ==
  (Live /\ TypeName \in TripletClasses) =>
    \A k \in MethodCalls :
      trace[k].call = "__triplet_loss" =>
        /\ \A m \in Margins :
             CompiledLoss([self.model.loss EXCEPT !.margin = m],
                          trace[k].y_true, trace[k].y_pred) = trace[k].loss
        /\ \A yp \in YPred :
             CompiledLoss(self.model.loss, trace[k].y_true, yp).a = trace[k].loss.a

C10_Witness ==
  /\ Live
  /\ TypeName = "TripletRGB"
  /\ \E k \in MethodCalls :
       /\ trace[k].call = "__triplet_loss"
       /\ trace[k].y_pred = "p2"
       /\ trace[k].loss.a.margin = "1.0"

====
